---- MODULE Spec2Model ----
(***************************************************************************)
(* A model of welearn_bot.py: the link cache (.link_cache), the resource   *)
(* fetcher get_resource, the course/assignment selection and the due-date  *)
(* formatting.                                                             *)
(*                                                                         *)
(* Strings are sequences of characters.  A character is a one-token string *)
(* ("u", "L", ...); the two tokens SP and NL stand for a blank and for a   *)
(* line break, the two kinds of whitespace str.strip() and readlines()     *)
(* tell apart.                                                             *)
(***************************************************************************)
EXTENDS Integers, Sequences, FiniteSets, TLC

VARIABLES
    cacheFile,    \* the file .link_cache: [exists, content]
    files,        \* the downloaded files: path <<directory, filename>> -> content
    dirs,         \* the directories that exist
    now,          \* the clock, datetime.now()
    pc,           \* "idle" (no process) or "fetch" (inside the Session block)
    args,         \* argparse result of the current / last run
    selected,     \* shortnames of the remote courses the run processes
    link_cache,   \* the in-memory set of links
    course_name,  \* the global get_resource reads
    todo,         \* the get_resource calls the loops have still to make
    last,         \* observation: the last get_resource call
    run,          \* observation: what the current / last run did
    ever,         \* observation: links downloaded and written, over all runs
    everNormal,   \* observation: the same, over normally terminated runs
    rt,           \* flush/load round trip on its own: [phase, set, file, loaded]
    dd            \* due-date formatting on its own: [phase, delta, ...]

vars == <<cacheFile, files, dirs, now, pc, args, selected, link_cache,
          course_name, todo, last, run, ever, everNormal, rt, dd>>

mainVars == <<cacheFile, files, dirs, now, pc, args, selected, link_cache,
              course_name, todo, last, run, ever, everNormal>>

----------------------------------------------------------------------------
(* Strings *)

SP == "SP"
NL == "NL"

IsSpace(c) == c \in {SP, NL}

\* str.upper on one character
UpperChar(c) ==
    CASE c = "a" -> "A"
      [] c = "l" -> "L"
      [] OTHER -> c

\* str.upper
Upper(s) == [i \in 1..Len(s) |-> UpperChar(s[i])]

RECURSIVE LStrip(_)
LStrip(s) ==
    IF s = <<>> THEN s
    ELSE IF IsSpace(Head(s)) THEN LStrip(Tail(s)) ELSE s

RECURSIVE RStrip(_)
RStrip(s) ==
    IF s = <<>> THEN s
    ELSE IF IsSpace(s[Len(s)]) THEN RStrip(SubSeq(s, 1, Len(s) - 1)) ELSE s

\* a load that keeps each line as read, line break included
StripNothing(s) == s

\* str.strip: leading and trailing whitespace removed
Strip(s) == RStrip(LStrip(s))

\* file.readlines(): the content cut after every line break, the line break
\* kept; a last line without line break is a line too
RECURSIVE ReadLinesFrom(_, _)
ReadLinesFrom(content, cur) ==
    IF content = <<>>
    THEN IF cur = <<>> THEN <<>> ELSE <<cur>>
    ELSE IF Head(content) = NL
         THEN <<Append(cur, NL)>> \o ReadLinesFrom(Tail(content), <<>>)
         ELSE ReadLinesFrom(Tail(content), Append(cur, Head(content)))

ReadLines(content) == ReadLinesFrom(content, <<>>)

----------------------------------------------------------------------------
(* The link cache: load at start, flush at the end *)

NoFile == [exists |-> FALSE, content |-> <<>>]

\* a start that does not read the file
LoadNothing(file) == {}

\* lines 50-54: empty when the file is absent, else the stripped lines
LoadLinkCache(file) ==
    IF ~file.exists THEN {}
    ELSE LET lines == ReadLines(file.content)
         IN {Strip(lines[i]) : i \in 1..Len(lines)}

\* list(link_cache): the set in any order
Orders(S) ==
    {o \in [1..Cardinality(S) -> S] : \A i, j \in 1..Cardinality(S) : o[i] = o[j] => i = j}

RECURSIVE WriteLinks(_)
WriteLinks(order) ==
    IF order = <<>> THEN <<>>
    ELSE Head(order) \o <<NL>> \o WriteLinks(Tail(order))

\* lines 156-158: the file overwritten with one link per line
FlushLinkCache(order) == [exists |-> TRUE, content |-> WriteLinks(order)]

----------------------------------------------------------------------------
(* What the command line, ~/.welearnrc and the server hold *)

cLA  == <<"L", "A">>
cLa  == <<"L", "a">>
cla  == <<"l", "a">>
cAll == <<"a", "l", "l">>

\* the literal 'ALL' of line 40
ALL == <<"A", "L", "L">>

uU   == <<"u">>
uV   == <<"v">>
uPad == <<SP, "u">>

Flags(l, a, d, f) ==
    [listcourses |-> l, assignments |-> a, dueassignments |-> d,
     forcedownload |-> f]

CmdLine(requested, flags) ==
    [requested |-> requested, listcourses |-> flags.listcourses,
     assignments |-> flags.assignments,
     dueassignments |-> flags.dueassignments,
     forcedownload |-> flags.forcedownload]

\* the command lines a run may be given (line 21): resources of a course
\* named exactly, in another case, or through ALL, with and without -f;
\* assignments with and without -d; -l; and no course at all
CommandLines ==
    {CmdLine({cLA}, Flags(FALSE, FALSE, FALSE, f)) : f \in BOOLEAN}
    \cup {CmdLine({c}, Flags(FALSE, FALSE, FALSE, FALSE)) : c \in {cLa, cla, cAll}}
    \cup {CmdLine({cLA}, Flags(FALSE, TRUE, d, FALSE)) : d \in BOOLEAN}
    \cup {CmdLine({cLA}, Flags(TRUE, FALSE, FALSE, FALSE)),
          CmdLine({}, Flags(FALSE, FALSE, FALSE, FALSE))}

\* keys of the [courses] section (configparser hands them out in lower case)
ConfigCourses == {cla}

\* core_course_get_courses_by_field
RemoteCourses ==
    << [id |-> 1, shortname |-> cLA], [id |-> 2, shortname |-> cLa] >>

\* mod_resource_get_resources_by_courses: course 1 holds two links under one
\* filename, course 2 a link with a leading blank
RemoteResources ==
    << [course |-> 1,
        contentfiles |-> << [filename |-> "f", fileurl |-> uU],
                            [filename |-> "f", fileurl |-> uV] >>],
       [course |-> 2,
        contentfiles |-> << [filename |-> "g", fileurl |-> uPad] >>] >>

\* the due date of the assignments; the clock starts at 0
DueDate == 1

\* mod_assign_get_assignments: the attachment of course LA is the link uU
\* again, under another filename
RemoteAssignments ==
    << [shortname |-> cLA,
        assignments |-> << [duedate |-> DueDate,
                            introattachments |->
                                << [filename |-> "h", fileurl |-> uU] >>] >>],
       [shortname |-> cLa,
        assignments |-> << [duedate |-> DueDate, introattachments |-> <<>>] >>] >>

RemoteShortnames == {RemoteCourses[i].shortname : i \in 1..Len(RemoteCourses)}

Paths == {<<cLA, "f">>, <<cLA, "h">>, <<cLa, "g">>}

\* what a path holds: nothing, a file that open() emptied, or a response
Absent == [kind |-> "absent", of |-> <<>>]
Truncated == [kind |-> "truncated", of |-> <<>>]

\* response.content of the post to a link
Content(fileurl) == [kind |-> "body", of |-> fileurl]

----------------------------------------------------------------------------
(* Lines 21-47: arguments and configuration *)

\* lines 34-37
all_courses == {Upper(Strip(k)) : k \in ConfigCourses}

\* lines 40-41
CoursesAfterAll(courses) ==
    IF ALL \in {Upper(c) : c \in courses} THEN all_courses ELSE courses

\* lines 100 and 145: "course_name in args.courses"
IsSelected(shortname, courses) == shortname \in courses

----------------------------------------------------------------------------
(* Lines 89-153: the calls of get_resource a run makes, in order *)

RECURSIVE Concat(_)
Concat(ss) == IF ss = <<>> THEN <<>> ELSE Head(ss) \o Concat(Tail(ss))

Calls(course, ress) ==
    [i \in 1..Len(ress) |-> [course |-> course, res |-> ress[i]]]

\* lines 142-146
course_ids(courses) ==
    {RemoteCourses[i] : i \in {j \in 1..Len(RemoteCourses) :
                                 IsSelected(RemoteCourses[j].shortname, courses)}}

\* lines 149-153
ResourceCalls(courses) ==
    Concat([i \in 1..Len(RemoteResources) |->
        LET r == RemoteResources[i]
            cs == {c \in course_ids(courses) : c.id = r.course}
        IN IF cs = {} THEN <<>>
           ELSE Calls((CHOOSE c \in cs : TRUE).shortname, r.contentfiles)])

\* line 110
IsDue(duedate, t) == duedate - t > 0

\* lines 103-127 for one course
AssignmentCallsOf(course, dueonly, t) ==
    Concat([k \in 1..Len(course.assignments) |->
        LET a == course.assignments[k]
        IN IF dueonly /\ ~IsDue(a.duedate, t) THEN <<>>
           ELSE Calls(course.shortname, a.introattachments)])

\* lines 97-127
AssignmentCalls(courses, dueonly, t) ==
    Concat([i \in 1..Len(RemoteAssignments) |->
        LET c == RemoteAssignments[i]
        IN IF ~IsSelected(c.shortname, courses) THEN <<>>
           ELSE AssignmentCallsOf(c, dueonly, t)])

\* the remote courses a run processes
SelectedCourses(courses) ==
    {n \in RemoteShortnames : IsSelected(n, courses)}

----------------------------------------------------------------------------
(* Lines 65-86: get_resource *)

\* a get_resource that downloads whatever the cache holds
NeverSkip(forcedownload, fileurl, cache) == FALSE

\* a get_resource that forgets the force flag
SkipIgnoringForce(forcedownload, fileurl, cache) == fileurl \in cache

\* line 71: "not args.forcedownload and fileurl in link_cache"
SkipDownload(forcedownload, fileurl, cache) ==
    ~forcedownload /\ fileurl \in cache

\* a get_resource that does not record the link
CacheNoAdd(cache, fileurl) == cache

\* a get_resource that restarts the cache at every download
CacheOnlyLast(cache, fileurl) == {fileurl}

\* line 86: link_cache.add(fileurl)
CacheAfterDownload(cache, fileurl) == cache \cup {fileurl}

\* a write that leaves an existing file alone
WriteIfAbsent(fs, filepath, content) ==
    IF fs[filepath] = Absent THEN [fs EXCEPT ![filepath] = content] ELSE fs

\* lines 81-82: open(filepath, "wb") and write
WriteFile(fs, filepath, content) == [fs EXCEPT ![filepath] = content]

\* lines 75-76: os.makedirs(course_name) unless it exists
DirsAfterMakedirs(ds, name) == ds \cup {name}

\* a run that carries on after a failed call
AlwaysReturns(outcome) == TRUE

\* no try/except anywhere: a call that raises ends the process
Returns(outcome) == outcome \in {"skip", "ok"}

Failures == {"mkdir_fail", "http_fail", "open_fail", "write_fail"}

Outcomes == {"skip", "ok"} \cup Failures

\* One call get_resource(res, prefix) ending in `outcome`.  "skip" is the
\* early return of line 72; the failures are exceptions raised by makedirs
\* (line 76), post (line 80), open (line 81) and write (line 82), each
\* leaving what was done before it: a failed write leaves the file that
\* open(filepath, "wb") has truncated.
get_resource(res, prefix, outcome) ==
    LET filename == res.filename
        filepath == <<prefix, filename>>
        fileurl  == res.fileurl
        skip     == SkipDownload(args.forcedownload, fileurl, link_cache)
        made     == IF outcome = "mkdir_fail" THEN dirs
                    ELSE DirsAfterMakedirs(dirs, course_name')
        posted   == outcome \in {"http_fail", "open_fail", "write_fail", "ok"}
        written  == outcome \in {"write_fail", "ok"}
    IN /\ outcome = "skip" <=> skip
       /\ outcome = "mkdir_fail" => course_name' \notin dirs
       \* open() needs the directory of filepath
       /\ written => prefix \in made
       /\ dirs' = IF skip THEN dirs ELSE made
       /\ files' = CASE outcome = "ok" ->
                          WriteFile(files, filepath, Content(fileurl))
                     [] outcome = "write_fail" ->
                          WriteFile(files, filepath, Truncated)
                     [] OTHER -> files
       /\ link_cache' = IF outcome = "ok"
                        THEN CacheAfterDownload(link_cache, fileurl)
                        ELSE link_cache
       /\ last' = [outcome |-> outcome, fileurl |-> fileurl,
                   filepath |-> filepath, hit |-> fileurl \in link_cache,
                   posted |-> posted]
       /\ run' = [run EXCEPT
                    !.nreq = @ + (IF posted THEN 1 ELSE 0),
                    !.nwrites = @ + (IF written THEN 1 ELSE 0),
                    !.added = IF outcome = "ok" THEN @ \cup {fileurl} ELSE @,
                    !.outcome = IF outcome \in Failures THEN "aborted" ELSE @]
       /\ ever' = IF outcome = "ok" THEN ever \cup {fileurl} ELSE ever

----------------------------------------------------------------------------
(* The runs of the script *)

NoCall == [outcome |-> "none", fileurl |-> <<>>, filepath |-> <<>>,
           hit |-> FALSE, posted |-> FALSE]

NoRun == [outcome |-> "none", startFile |-> NoFile, nreq |-> 0, nwrites |-> 0,
          added |-> {}, rerun |-> FALSE, links |-> {}]

NoArgs == [requested |-> {}, courses |-> {}, listcourses |-> FALSE,
           assignments |-> FALSE, dueassignments |-> FALSE,
           forcedownload |-> FALSE]

\* lines 21-41: the arguments as the run uses them
Parsed(cmd) ==
    [requested |-> cmd.requested, courses |-> CoursesAfterAll(cmd.requested),
     listcourses |-> cmd.listcourses, assignments |-> cmd.assignments,
     dueassignments |-> cmd.dueassignments,
     forcedownload |-> cmd.forcedownload]

LinksOf(calls) == {calls[i].res.fileurl : i \in 1..Len(calls)}

\* lines 22-24 and 44-47: the process ends before the cache is read
ExitsEarly(cmd) == (cmd.requested = {} /\ ~cmd.listcourses) \/ cmd.listcourses

MainInit ==
    /\ cacheFile = NoFile
    /\ files = [p \in Paths |-> Absent]
    /\ dirs = {}
    /\ now = 0
    /\ pc = "idle"
    /\ args = NoArgs
    /\ selected = {}
    /\ link_cache = {}
    /\ course_name = <<>>
    /\ todo = <<>>
    /\ last = NoCall
    /\ run = NoRun
    /\ ever = {}
    /\ everNormal = {}

RtIdle == rt = [phase |-> "off", set |-> {}, file |-> NoFile, loaded |-> {}]

DdIdle == dd = [phase |-> "off", delta |-> 0, dueonly |-> FALSE,
                printed |-> FALSE, ago |-> FALSE, days |-> 0, hours |-> 0]

\* time passes between runs; from DueDate on no assignment is due any more
Tick ==
    /\ pc = "idle"
    /\ now < DueDate
    /\ now' = now + 1
    /\ UNCHANGED <<cacheFile, files, dirs, pc, args, selected, link_cache,
                   course_name, todo, last, run, ever, everNormal, rt, dd>>

\* lines 21-47: a command line that ends the process before the cache is read
ExitEarly ==
    /\ pc = "idle"
    /\ \E cmd \in CommandLines :
         /\ ExitsEarly(cmd)
         /\ args' = Parsed(cmd)
    /\ run' = [NoRun EXCEPT !.outcome = "exit", !.startFile = cacheFile]
    /\ last' = NoCall
    /\ UNCHANGED <<cacheFile, files, dirs, now, pc, selected, link_cache,
                   course_name, todo, ever, everNormal, rt, dd>>

\* lines 21-153 up to the first get_resource: the cache is loaded, the
\* listings are fetched, the loops are set up.  `listed` is false when the
\* login or a listing raises, which ends the process.
StartRun ==
    /\ pc = "idle"
    /\ \E cmd \in CommandLines, listed \in BOOLEAN :
         LET new == Parsed(cmd)
             calls == IF new.assignments
                      THEN AssignmentCalls(new.courses, new.dueassignments, now)
                      ELSE ResourceCalls(new.courses)
         IN /\ ~ExitsEarly(cmd)
            /\ args' = new
            /\ link_cache' = LoadLinkCache(cacheFile)
            /\ pc' = IF listed THEN "fetch" ELSE "idle"
            /\ todo' = IF listed THEN calls ELSE <<>>
            /\ selected' = IF listed THEN SelectedCourses(new.courses) ELSE {}
            /\ run' = [outcome |-> IF listed THEN "running" ELSE "aborted",
                       startFile |-> cacheFile, nreq |-> 0, nwrites |-> 0,
                       added |-> {},
                       rerun |-> /\ run.outcome = "normal"
                                 /\ ~args.forcedownload
                                 /\ args = new,
                       links |-> IF listed THEN LinksOf(calls) ELSE {}]
    /\ last' = NoCall
    /\ UNCHANGED <<cacheFile, files, dirs, now, course_name, ever, everNormal,
                   rt, dd>>

\* the next get_resource call of the loops (lines 127 and 153)
GetResourceStep ==
    /\ pc = "fetch"
    /\ todo # <<>>
    /\ LET call == Head(todo)
       IN /\ course_name' = call.course
          /\ \E outcome \in Outcomes :
               /\ get_resource(call.res, call.course, outcome)
               /\ pc' = IF Returns(outcome) THEN "fetch" ELSE "idle"
               /\ todo' = IF Returns(outcome) THEN Tail(todo) ELSE <<>>
    /\ UNCHANGED <<cacheFile, now, args, selected, everNormal, rt, dd>>

\* lines 155-158: the loops are over, the cache is written and the process ends
FinishRun ==
    /\ pc = "fetch"
    /\ todo = <<>>
    /\ \E order \in Orders(link_cache) : cacheFile' = FlushLinkCache(order)
    /\ pc' = "idle"
    /\ run' = [run EXCEPT !.outcome = IF @ = "running" THEN "normal" ELSE @]
    /\ everNormal' = everNormal \cup run.added
    /\ last' = NoCall
    /\ UNCHANGED <<files, dirs, now, args, selected, link_cache, course_name,
                   todo, ever, rt, dd>>

Init == MainInit /\ RtIdle /\ DdIdle

Next == Tick \/ ExitEarly \/ StartRun \/ GetResourceStep \/ FinishRun

Spec == Init /\ [][Next]_vars

----------------------------------------------------------------------------
(* Flush and load on their own, over sets of arbitrary strings *)

MaxUrlLen == 2      \* the links are strings of at most MaxUrlLen characters
MaxCacheSize == 2   \* the cache holds at most MaxCacheSize links

UrlChars == {"u", SP, NL}

Urls == UNION {[1..k -> UrlChars] : k \in 0..MaxUrlLen}

Caches ==
    {{}} \cup UNION {{{f[i] : i \in 1..k} : f \in [1..k -> Urls]} :
                      k \in 1..MaxCacheSize}

InitRT ==
    /\ MainInit
    /\ DdIdle
    /\ \E S \in Caches :
         rt = [phase |-> "held", set |-> S, file |-> NoFile, loaded |-> {}]

\* lines 156-158 on the set held
FlushRT ==
    /\ rt.phase = "held"
    /\ \E order \in Orders(rt.set) :
         rt' = [rt EXCEPT !.phase = "flushed", !.file = FlushLinkCache(order)]
    /\ UNCHANGED <<mainVars, dd>>

\* lines 50-54 on the file written
LoadRT ==
    /\ rt.phase = "flushed"
    /\ rt' = [rt EXCEPT !.phase = "loaded", !.loaded = LoadLinkCache(rt.file)]
    /\ UNCHANGED <<mainVars, dd>>

NextRT == FlushRT \/ LoadRT

SpecRT == InitRT /\ [][NextRT]_vars

----------------------------------------------------------------------------
(* Lines 106-124 on their own: the due date of one assignment *)

MaxHalfHours == 120   \* duedate - now ranges over -60 .. 60 hours

HourSeconds == 3600
DaySeconds == 24 * HourSeconds
HalfHour == HourSeconds \div 2

Abs(n) == IF n < 0 THEN -n ELSE n

\* timedelta.days: a timedelta is kept as days (of either sign) plus
\* 0 <= seconds < 86400
TimedeltaDays(delta) == delta \div DaySeconds

\* timedelta.seconds
TimedeltaSeconds(delta) == delta % DaySeconds

\* line 117: abs(duedelta.days) and duedelta.seconds // 3600
DueDeltaStr(delta) ==
    [days |-> Abs(TimedeltaDays(delta)),
     hours |-> TimedeltaSeconds(delta) \div HourSeconds]

\* duedate - now in whole seconds, on and one second off the half hours
Deltas ==
    {k * HalfHour + o : k \in (-MaxHalfHours)..MaxHalfHours, o \in {-1, 0, 1}}

InitDue ==
    /\ MainInit
    /\ RtIdle
    /\ \E delta \in Deltas, dueonly \in BOOLEAN :
         dd = [phase |-> "new", delta |-> delta, dueonly |-> dueonly,
               printed |-> FALSE, ago |-> FALSE, days |-> 0, hours |-> 0]

\* lines 108-124 for one assignment: skipped under -d when not due, else
\* printed with "Time remaining" or "... ago"
ShowAssignment ==
    /\ dd.phase = "new"
    /\ LET due == IsDue(dd.delta, 0)
           str == DueDeltaStr(dd.delta)
       IN dd' = IF dd.dueonly /\ ~due
                THEN [dd EXCEPT !.phase = "done"]
                ELSE [dd EXCEPT !.phase = "done", !.printed = TRUE,
                                !.ago = ~due, !.days = str.days,
                                !.hours = str.hours]
    /\ UNCHANGED <<mainVars, rt>>

NextDue == ShowAssignment

SpecDue == InitDue /\ [][NextDue]_vars

----------------------------------------------------------------------------
(* The claims *)

\* the links the amended claims speak of: a link with no whitespace around it and no line break in it
Clean(s) ==
    /\ s # <<>> => ~IsSpace(s[1]) /\ ~IsSpace(s[Len(s)])
    /\ \A i \in 1..Len(s) : s[i] # NL

\* C1: a get_resource call without -f for a link the in-memory cache
\* holds is a no-op: no request, no directory or file made or written, the
\* cache and the cache file unchanged, and the call returns.
C1_CachedCallIsNoOp ==
    [][(/\ pc = "fetch"
        /\ todo # <<>>
        /\ ~args.forcedownload
        /\ Head(todo).res.fileurl \in link_cache)
       => (/\ files' = files
           /\ dirs' = dirs
           /\ link_cache' = link_cache
           /\ cacheFile' = cacheFile
           /\ run'.nreq = run.nreq
           /\ run'.nwrites = run.nwrites
           /\ pc' = "fetch")]_vars

C1_Witness ==
    /\ last.outcome = "skip"
    /\ last.hit
    /\ ~args.forcedownload
    /\ files[last.filepath] # Content(last.fileurl)

\* C2 as stated: after every get_resource call without -f that returns, the
\* link is in the cache and <directory>/<filename> holds the content of
\* that link.
C2_Original ==
    (~args.forcedownload /\ last.outcome \in {"skip", "ok"})
    => /\ last.fileurl \in link_cache
       /\ files[last.filepath] = Content(last.fileurl)

\* C2 as amended: after a get_resource call without -f that downloads (the
\* link was not in the cache) and returns, the link is in the cache and
\* <directory>/<filename> holds the content of that link.
C2_DownloadedCall ==
    (~args.forcedownload /\ last.outcome = "ok")
    => /\ ~last.hit
       /\ last.fileurl \in link_cache
       /\ last.filepath[1] \in dirs
       /\ files[last.filepath] = Content(last.fileurl)

C2_Witness ==
    /\ ~args.forcedownload
    /\ last.outcome = "ok"
    /\ last.fileurl = uV
    /\ files[last.filepath] = Content(uV)

\* C3: with -f a get_resource call never takes the early return, whether
\* or not the link is cached: it posts the request (unless makedirs raised
\* first), and when it returns the file holds the response and the link is
\* in the cache.
C3_ForcedCall ==
    (args.forcedownload /\ last.outcome # "none")
    => /\ last.outcome # "skip"
       /\ last.outcome # "mkdir_fail" => last.posted
       /\ last.outcome = "ok" =>
            /\ files[last.filepath] = Content(last.fileurl)
            /\ last.fileurl \in link_cache

C3_Witness ==
    /\ args.forcedownload
    /\ last.outcome = "ok"
    /\ last.hit
    /\ last.posted
    /\ last.fileurl = uU
    /\ files[last.filepath] = Content(uU)

\* C4 as stated: a run without -f that follows a normally terminated run
\* without -f with the same command line posts no download, writes no
\* file and leaves the persisted set as it was.
C4_Original ==
    (pc = "idle" /\ run.outcome = "normal" /\ run.rerun)
    => /\ run.nreq = 0
       /\ run.nwrites = 0
       /\ LoadLinkCache(cacheFile) = LoadLinkCache(run.startFile)

\* C4 as amended: the same, for runs whose links have no whitespace around
\* them and no line break in them.
C4_RerunOfCleanLinks ==
    (/\ pc = "idle"
     /\ run.outcome = "normal"
     /\ run.rerun
     /\ \A u \in run.links : Clean(u))
    => /\ run.nreq = 0
       /\ run.nwrites = 0
       /\ LoadLinkCache(cacheFile) = LoadLinkCache(run.startFile)

C4_Witness ==
    /\ pc = "idle"
    /\ run.outcome = "normal"
    /\ run.rerun
    /\ Cardinality(run.links) = 2
    /\ \A u \in run.links : Clean(u)
    /\ run.nreq = 0

\* C5 as stated: flushing any set of strings and loading the file gives
\* the set back, whatever the order of the lines.
C5_Original == rt.phase = "loaded" => rt.loaded = rt.set

\* C5 as amended: flushing a set of strings that have no whitespace around
\* them and no line break in them and loading the file gives the set back,
\* whatever the order of the lines.
C5_RoundTripOfCleanLinks ==
    (rt.phase = "loaded" /\ \A u \in rt.set : Clean(u))
    => rt.loaded = rt.set

C5_Witness ==
    /\ rt.phase = "loaded"
    /\ Cardinality(rt.set) >= 2
    /\ \A u \in rt.set : Clean(u)
    /\ Head(rt.file.content) = "u"
    /\ rt.loaded = rt.set

\* C6 as stated, read on the links that a flush and a load give back (no
\* whitespace around them, no line break in them): when a run has
\* terminated normally the persisted set holds every such link ever
\* downloaded and written, in any run, aborted runs included.
C6_Original ==
    (pc = "idle" /\ run.outcome = "normal")
    => \A u \in ever : Clean(u) => u \in LoadLinkCache(cacheFile)

\* C6 as amended: when a run has terminated normally the persisted set
\* holds every link, with no whitespace around it and no line break in it,
\* that was downloaded and written in this run or in an earlier run that
\* terminated normally.
C6_PersistedAfterNormalRuns ==
    (pc = "idle" /\ run.outcome = "normal")
    => \A u \in everNormal : Clean(u) => u \in LoadLinkCache(cacheFile)

C6_Witness ==
    /\ pc = "idle"
    /\ run.outcome = "normal"
    /\ uV \in everNormal \ run.added
    /\ uV \in LoadLinkCache(cacheFile)
    /\ uPad \in run.added
    /\ uPad \notin LoadLinkCache(cacheFile)

\* C7: no step shrinks the persisted set, and no step of a run removes a
\* link from the in-memory set, with or without -f, whether the run ends
\* normally or aborts.
C7_CacheNeverShrinks ==
    [][/\ LoadLinkCache(cacheFile) \subseteq LoadLinkCache(cacheFile')
       /\ pc = "fetch" => link_cache \subseteq link_cache']_vars

C7_Witness ==
    /\ pc = "idle"
    /\ args.forcedownload
    /\ run.outcome = "normal"
    /\ run.added # {}
    /\ LoadLinkCache(run.startFile) # {}
    /\ LoadLinkCache(run.startFile) \subseteq LoadLinkCache(cacheFile)

\* C8: a run in which a call raised (request, write, makedirs or listing)
\* has ended without a further call, and the cache file is what it was
\* when the run started.
C8_AbortLeavesCacheFile ==
    run.outcome = "aborted"
    => /\ pc = "idle"
       /\ todo = <<>>
       /\ cacheFile = run.startFile

C8_Witness ==
    /\ run.outcome = "aborted"
    /\ last.outcome \in {"http_fail", "write_fail"}
    /\ run.added # {}
    /\ ~(run.added \subseteq LoadLinkCache(cacheFile))

\* C9: a run processes a remote course exactly when its shortname equals,
\* letter case ignored, a course named on the command line (a configured
\* course, when ALL is named).
C9_CaseInsensitiveSelection ==
    pc = "fetch"
    => LET named == IF ALL \in {Upper(c) : c \in args.requested}
                    THEN ConfigCourses ELSE args.requested
       IN selected = {n \in RemoteShortnames :
                        \E c \in named : Upper(n) = Upper(c)}

\* C10: the printed days and hours are the floor decomposition of
\* |duedate - now|: 0 <= hours < 24 and days * 24 + hours is the whole
\* number of hours remaining or elapsed.
C10_DaysHoursDecomposition ==
    dd.printed
    => /\ dd.hours \in 0..23
       /\ dd.days * 24 + dd.hours = Abs(dd.delta) \div HourSeconds

====
